---- MODULE Spec2Model ----
(***************************************************************************)
(* Model of streamlit_app.py: the greenhouse-gas dashboard.  One run of    *)
(* main() is a sequence of steps (title, the three selectors, the          *)
(* placeholder check, get_data_source, the three chart pipelines); the     *)
(* script is re-run from the top on every user interaction.                *)
(*                                                                         *)
(* Everything Streamlit shows is recorded, in order, in `out`.  A table    *)
(* (pandas DataFrame) is a sequence of rows; a row keeps the index label   *)
(* it had in the loaded file, as pandas does through dropna and boolean    *)
(* selection.                                                              *)
(***************************************************************************)
EXTENDS Integers, Sequences, FiniteSets

VARIABLES
    files,           \* the filesystem: the tables stored under their paths
    pandas,          \* the pandas release installed
    pc,              \* position of the run inside main()
    selected_gas,    \* main's local: the value select_gas() returned
    selected_year,   \* main's local: the value select_year() returned
    selected_month,  \* main's local: the value select_month() returned
    month_choice,    \* the option picked in the "Select Month" box
    df,              \* main's local: what get_data_source returned
    loaded,          \* the table as data_reader returned it in this run
    reads,           \* number of data_reader calls made in this run
    calls,           \* the pipelines invoked in this run, in order, each
                     \* with the span of `out` it displayed and the shared
                     \* table as it left it
    out              \* the elements displayed in this run, in order

vars == <<files, pandas, pc, selected_gas, selected_year, selected_month,
          month_choice, df, loaded, reads, calls, out>>

-----------------------------------------------------------------------------
(* Bounds of the model *)

\* longest table stored in a file
MaxRows == 2

\* datetime.now().year: the last year the year selector offers
CurrentYear == 2001

-----------------------------------------------------------------------------
(* Python values *)

\* Python's None where an int may stand; never a year or a month
None == 0 - 1

\* truthiness of an optional int (`if selected_year and selected_month`)
Truthy(v) == v # None /\ v # 0

\* a missing DataFrame (get_data_source returned None) / a DataFrame
NoFrame == [isNone |-> TRUE, rows |-> <<>>]
Frame(rows) == [isNone |-> FALSE, rows |-> rows]

-----------------------------------------------------------------------------
(* Date cells and pd.to_datetime(..., errors='coerce') *)

\* a text cell of the CSV (a sequence of characters), an empty cell (NaN),
\* a parsed Timestamp (to the second), and NaT
Str(chars) == [kind |-> "str", text |-> chars]
NaN == [kind |-> "nan"]
Timestamp(y, m, d, hms) ==
    [kind |-> "ts", year |-> y, month |-> m, day |-> d,
     hour |-> hms[1], minute |-> hms[2], second |-> hms[3]]
NaT == [kind |-> "nat"]

Digits == {"0", "1", "2", "3", "4", "5", "6", "7", "8", "9"}

DigitVal(c) ==
    CASE c = "0" -> 0 [] c = "1" -> 1 [] c = "2" -> 2 [] c = "3" -> 3
      [] c = "4" -> 4 [] c = "5" -> 5 [] c = "6" -> 6 [] c = "7" -> 7
      [] c = "8" -> 8 [] c = "9" -> 9

IsDigitSeq(s) == Len(s) > 0 /\ \A i \in 1..Len(s) : s[i] \in Digits

\* the number a sequence of one to four digits writes
Num(s) ==
    CASE Len(s) = 1 -> DigitVal(s[1])
      [] Len(s) = 2 -> 10 * DigitVal(s[1]) + DigitVal(s[2])
      [] Len(s) = 3 -> 100 * DigitVal(s[1]) + 10 * DigitVal(s[2])
                       + DigitVal(s[3])
      [] Len(s) = 4 -> 1000 * DigitVal(s[1]) + 100 * DigitVal(s[2])
                       + 10 * DigitVal(s[3]) + DigitVal(s[4])

\* position of the first character of s that is in cs, 0 when there is none
IndexOf(s, cs) ==
    IF \E i \in 1..Len(s) : s[i] \in cs
    THEN CHOOSE i \in 1..Len(s) :
            s[i] \in cs /\ \A j \in 1..(i - 1) : s[j] \notin cs
    ELSE 0

\* the pieces of s between the characters of cs: one piece when s holds
\* none of them, three when it holds two, and no reading (<<>>) otherwise
Fields(s, cs) ==
    LET at == {i \in 1..Len(s) : s[i] \in cs}
    IN  IF at = {} THEN <<s>>
        ELSE IF Cardinality(at) = 2
        THEN LET p == CHOOSE i \in at : \A j \in at : i <= j
                 q == CHOOSE i \in at : \A j \in at : j <= i
             IN  <<SubSeq(s, 1, p - 1), SubSeq(s, p + 1, q - 1),
                   SubSeq(s, q + 1, Len(s))>>
        ELSE <<>>

IsLeap(y) == (y % 4 = 0 /\ y % 100 # 0) \/ y % 400 = 0

DaysInMonth(y, m) ==
    IF m = 2 THEN (IF IsLeap(y) THEN 29 ELSE 28)
    ELSE IF m \in {4, 6, 9, 11} THEN 30 ELSE 31

\* the month abbreviations a date text may spell
MonthAbbrevs ==
    << <<"J", "a", "n">>, <<"F", "e", "b">>, <<"M", "a", "r">>,
       <<"A", "p", "r">>, <<"M", "a", "y">>, <<"J", "u", "n">>,
       <<"J", "u", "l">>, <<"A", "u", "g">>, <<"S", "e", "p">>,
       <<"O", "c", "t">>, <<"N", "o", "v">>, <<"D", "e", "c">> >>

\* lexicographic a <= b on tuples of numbers of one length
LexLE(a, b) ==
    \/ a = b
    \/ \E i \in 1..Len(a) :
          a[i] < b[i] /\ \A j \in 1..(i - 1) : a[j] = b[j]

\* the whole seconds a nanosecond Timestamp (int64 since 1970) can hold:
\* 1677-09-21 00:12:44 to 2262-04-11 23:47:16
InNsBounds(y, m, d, hms) ==
    /\ LexLE(<<1677, 9, 21, 0, 12, 44>>, <<y, m, d>> \o hms)
    /\ LexLE(<<y, m, d>> \o hms, <<2262, 4, 11, 23, 47, 16>>)

\* there is such a day in the calendar
IsDay(y, m, d) == m \in 1..12 /\ d >= 1 /\ d <= DaysInMonth(y, m)

\* a text outside what the model reads: the model states no result for it
Unread == [kind |-> "unread"]

\* the Timestamp of a calendar reading, NaT when there is no such day or,
\* with nanosecond resolution, the day is out of range; a day of the year
\* 0000 that is in range is not read
Build(y, m, d, hms, bounded) ==
    IF ~IsDay(y, m, d) THEN NaT
    ELSE IF bounded /\ ~InNsBounds(y, m, d, hms) THEN NaT
    ELSE IF y = 0 THEN Unread
    ELSE Timestamp(y, m, d, hms)

\* What the model reads of a text.  pandas hands a text to its ISO 8601
\* parser and then to dateutil, which read far more layouts than a finite
\* definition can list.  The layouts below are read as pandas reads them; a
\* text known to be no date has no shape; of every other text the model
\* says nothing: its shape, and the cell it parses to, is Unread.  No file
\* of FileSystems holds such a text.
NoShape == [kind |-> "none"]

\* texts that are known not to parse
NoDateTexts == { <<>>, <<"a", "b", "c">> }

\* a time of day written "HH:MM:SS" ("hms") or "HH:MM" ("hm"); no time
\* ("none") when written so with an hour, minute or second out of range
TimeShape(t) ==
    IF /\ Len(t) = 8
       /\ t[3] = ":" /\ t[6] = ":"
       /\ \A i \in {1, 2, 4, 5, 7, 8} : t[i] \in Digits
    THEN IF /\ Num(SubSeq(t, 1, 2)) < 24
            /\ Num(SubSeq(t, 4, 5)) < 60
            /\ Num(SubSeq(t, 7, 8)) < 60
         THEN [kind |-> "hms",
               hms |-> <<Num(SubSeq(t, 1, 2)), Num(SubSeq(t, 4, 5)),
                         Num(SubSeq(t, 7, 8))>>]
         ELSE NoShape
    ELSE IF /\ Len(t) = 5
            /\ t[3] = ":"
            /\ \A i \in {1, 2, 4, 5} : t[i] \in Digits
    THEN IF Num(SubSeq(t, 1, 2)) < 24 /\ Num(SubSeq(t, 4, 5)) < 60
         THEN [kind |-> "hm",
               hms |-> <<Num(SubSeq(t, 1, 2)), Num(SubSeq(t, 4, 5)), 0>>]
         ELSE NoShape
    ELSE Unread

\* no time of day written
NoTime == [kind |-> "", hms |-> <<0, 0, 0>>]

\* how a date text is written.  The layouts read are
\*   "ymd"   2000-01-15   2000/01/15   2000-1-5     (year first)
\*   "ffy"   1/15/2000    01-15-2000                (year last)
\*   "ymd8"  20000115
\*   "mon"   Jan 15 2000
\* the first three optionally followed by ' ' or 'T' and a time of day.
\* `a` and `b` are the two fields beside the year in the order written,
\* `sep` is the separator of the date, `tsep` the character before the
\* time and `time` the way the time is written.  `name` says how the month
\* is named: "" by number, "b" by an abbreviation, "Bb" by 'May', which is
\* both a full name and an abbreviation.

\* month name, day, year.  A year below 0100 written after a month name is
\* taken for a year of the century around the day the program runs; such a
\* text is not read.
MonShape(t) ==
    IF /\ Len(t) = 3
       /\ \E k \in 1..12 : MonthAbbrevs[k] = t[1]
       /\ IsDigitSeq(t[2]) /\ Len(t[2]) \in 1..2
       /\ IsDigitSeq(t[3]) /\ Len(t[3]) = 4
       /\ Num(t[3]) >= 100
    THEN [kind |-> "mon", sep |-> " ", time |-> "", tsep |-> "",
          name |-> IF t[1] = MonthAbbrevs[5] THEN "Bb" ELSE "b",
          y |-> Num(t[3]),
          a |-> CHOOSE k \in 1..12 : MonthAbbrevs[k] = t[1],
          b |-> Num(t[2]), hms |-> <<0, 0, 0>>]
    ELSE Unread

\* the fields f of the date part, the separators written between them, the
\* time of day tm and the character tsep written before it
FieldShape(f, seps, tm, tsep) ==
    IF Len(f) = 1 /\ IsDigitSeq(f[1]) /\ Len(f[1]) = 8
    THEN [kind |-> "ymd8", sep |-> "", time |-> tm.kind, tsep |-> tsep,
          name |-> "",
          y |-> Num(SubSeq(f[1], 1, 4)),
          a |-> Num(SubSeq(f[1], 5, 6)),
          b |-> Num(SubSeq(f[1], 7, 8)), hms |-> tm.hms]
    ELSE IF /\ Len(f) = 3
            /\ \A i \in 1..3 : IsDigitSeq(f[i])
            /\ seps[1] = seps[2]
    THEN IF Len(f[1]) = 4 /\ Len(f[2]) \in 1..2 /\ Len(f[3]) \in 1..2
         THEN [kind |-> "ymd", sep |-> seps[1], time |-> tm.kind,
               tsep |-> tsep, name |-> "",
               y |-> Num(f[1]), a |-> Num(f[2]), b |-> Num(f[3]),
               hms |-> tm.hms]
         ELSE IF Len(f[3]) = 4 /\ Len(f[1]) \in 1..2 /\ Len(f[2]) \in 1..2
         THEN [kind |-> "ffy", sep |-> seps[1], time |-> tm.kind,
               tsep |-> tsep, name |-> "",
               y |-> Num(f[3]), a |-> Num(f[1]), b |-> Num(f[2]),
               hms |-> tm.hms]
         ELSE Unread
    ELSE Unread

\* a date part d followed by the character tsep and the time of day tm
TimedShape(d, tm, tsep) ==
    IF tm.kind \in {"none", "unread"} THEN tm
    ELSE FieldShape(Fields(d, {"-", "/"}),
                    SelectSeq(d, LAMBDA c : c \in {"-", "/"}),
                    tm, tsep)

\* a text that starts with a digit, with p the position of the character
\* before its time of day (0 when it has none)
NumShape(s, p) ==
    IF p = 0 THEN TimedShape(s, NoTime, "")
    ELSE TimedShape(SubSeq(s, 1, p - 1),
                    TimeShape(SubSeq(s, p + 1, Len(s))), s[p])

Shape(s) ==
    IF s \in NoDateTexts THEN NoShape
    ELSE IF s[1] \notin Digits THEN MonShape(Fields(s, {" "}))
    ELSE NumShape(s, IndexOf(s, {" ", "T"}))

\* a year-last text is read month first, and day first when the first
\* field cannot be a month
DayFirst(sh) == sh.kind = "ffy" /\ sh.a > 12 /\ sh.b <= 12

\* the Timestamp a shape denotes, its two fields read day first or not.
\* A year below 1000 is read as written when the text is written year
\* first; in another layout it is out of the nanosecond range, and without
\* that range it is not read.
Read(sh, dayfirst, bounded) ==
    IF sh.kind = "none" THEN NaT
    ELSE IF sh.kind = "unread" THEN Unread
    ELSE IF sh.y < 1000 /\ sh.kind # "ymd" /\ ~bounded THEN Unread
    ELSE IF dayfirst THEN Build(sh.y, sh.b, sh.a, sh.hms, bounded)
    ELSE Build(sh.y, sh.a, sh.b, sh.hms, bounded)

ReadText(sh, bounded) == Read(sh, DayFirst(sh), bounded)

\* one text parsed on its own, whatever its layout
ParseText(s, bounded) == ReadText(Shape(s), bounded)

NoFormat == [kind |-> "none"]

\* the format of a shape: the digits of a field do not count (the guess
\* pads them); 'May' is taken for a full month name (%B), any other
\* abbreviation for an abbreviation (%b).  There is no format when the
\* text itself does not parse, out of the nanosecond range included, nor
\* for a year below 1000 (strftime writes it without its leading zeros, so
\* the guess does not find the year in the text).
FormatOf(sh, bounded) ==
    IF sh.kind = "none" THEN NoFormat
    ELSE IF sh.kind = "unread" THEN Unread
    ELSE IF sh.y < 1000 THEN NoFormat
    ELSE IF ReadText(sh, bounded) = NaT THEN NoFormat
    ELSE [kind |-> sh.kind, sep |-> sh.sep, time |-> sh.time,
          tsep |-> sh.tsep, dayfirst |-> DayFirst(sh),
          month |-> IF sh.name = "Bb" THEN "B" ELSE sh.name]

\* the format pandas 2 and later guess from the first text of a column
GuessFormat(s, bounded) == FormatOf(Shape(s), bounded)

\* a text of another layout is not a date under the format, nor is an
\* abbreviated month under a format of full month names; of a text that
\* differs only in how its time is written the model says nothing
ReadWithFormat(fmt, sh, bounded) ==
    IF sh.kind = "none" THEN NaT
    ELSE IF sh.kind = "unread" THEN Unread
    ELSE IF \/ sh.kind # fmt.kind
            \/ sh.sep # fmt.sep
            \/ (sh.time = "") # (fmt.time = "")
            \/ fmt.month = "B" /\ sh.name # "Bb"
    THEN NaT
    ELSE IF sh.time # fmt.time \/ sh.tsep # fmt.tsep THEN Unread
    ELSE Read(sh, fmt.dayfirst, bounded)

\* one text parsed with the column's format
ParseWithFormat(fmt, s, bounded) == ReadWithFormat(fmt, Shape(s), bounded)

\* the pandas releases the script may run on (it pins none): 1.x parses
\* every text on its own; 2.x and 3.x parse the column with the format of
\* its first text when one can be guessed; 1.x and 2.x keep nanoseconds
PandasVersions == {"1.x", "2.x", "3.x"}

\* the format the column is parsed with: that of the first of its texts
\* (the empty text does not count as one)
ColumnFormat(texts, bounded) ==
    IF pandas = "1.x" \/ texts = <<>> THEN NoFormat
    ELSE GuessFormat(texts[1].text, bounded)

ParseCell(cell, fmt, bounded) ==
    IF cell.kind = "nan" THEN NaT
    ELSE IF cell.kind # "str" THEN cell
    ELSE IF fmt.kind = "unread" THEN Unread
    ELSE IF fmt.kind = "none" THEN ParseText(cell.text, bounded)
    ELSE ParseWithFormat(fmt, cell.text, bounded)

ParseColumn(cells, fmt, bounded) ==
    [i \in 1..Len(cells) |-> ParseCell(cells[i], fmt, bounded)]

\* pd.to_datetime(column, errors='coerce'): a datetime column is returned
\* as it is; in a column of texts every text that does not parse, and every
\* empty cell, becomes NaT
ToDatetime(cells) ==
    IF \A i \in 1..Len(cells) : cells[i].kind \in {"ts", "nat"}
    THEN cells
    ELSE ParseColumn(cells,
                     ColumnFormat(SelectSeq(cells, LAMBDA c : c.kind = "str"
                                                            /\ c.text # <<>>),
                                  pandas # "3.x"),
                     pandas # "3.x")

\* pd.isna on a date cell (what dropna(subset=['date']) tests)
IsNA(cell) == cell.kind \in {"nat", "nan"}

-----------------------------------------------------------------------------
(* Tables *)

\* a row of the file data/<gas>.csv: index label and the three columns
Row(i, cell) ==
    [idx |-> i, date |-> cell, Alt_Mean |-> 400 + i, std_CO2 |-> i]

\* lines 83, 120, 157: df['date'] = pd.to_datetime(df['date'], errors='coerce')
SetDates(rows, dates) ==
    [i \in 1..Len(rows) |-> [rows[i] EXCEPT !.date = dates[i]]]

ParseDates(rows) ==
    SetDates(rows, ToDatetime([i \in 1..Len(rows) |-> rows[i].date]))

\* lines 86, 123, 160: df.dropna(subset=['date'], inplace=True)
DropNaDates(rows) == SelectSeq(rows, LAMBDA r : ~IsNA(r.date))

\* lines 89, 126, 163: df['year'] = df['date'].dt.year
AddYear(rows) ==
    [i \in 1..Len(rows) |->
        [idx |-> rows[i].idx, date |-> rows[i].date,
         Alt_Mean |-> rows[i].Alt_Mean, std_CO2 |-> rows[i].std_CO2,
         year |-> rows[i].date.year]]

\* the three statements every pipeline opens with, applied to the shared table
Clean(rows) == AddYear(DropNaDates(ParseDates(rows)))

\* df[df['year'] == selected_year]
FilterYear(rows, year) == SelectSeq(rows, LAMBDA r : r.year = year)

\* mutant of FilterYearMonth: the month test is lost
FilterYearMonth_YearOnly(rows, year, month) ==
    SelectSeq(rows, LAMBDA r : r.year = year)

\* df[(df['year'] == selected_year) & (df['date'].dt.month == selected_month)]
FilterYearMonth(rows, year, month) ==
    SelectSeq(rows, LAMBDA r : r.year = year /\ r.date.month = month)

\* mutant of IsEmpty: a table of one row counts as empty
IsEmpty_BelowTwo(rows) == Len(rows) < 2

\* DataFrame.empty
IsEmpty(rows) == Len(rows) = 0

-----------------------------------------------------------------------------
(* Selection widgets *)

\* line 11: the options of the gas box
GasOptions == {"Select Gas", "CO2"}

\* str.lower() / str.upper() on the strings the program handles
Lower(s) ==
    CASE s = "Select Gas" -> "select gas"
      [] s = "CO2" -> "co2"
      [] OTHER -> s

Upper(s) ==
    CASE s = "select gas" -> "SELECT GAS"
      [] s = "co2" -> "CO2"
      [] OTHER -> s

\* lines 7-13: select_gas, given the option the user picked
select_gas(option) == Lower(option)

\* line 19: the options of the year box; the placeholder stands as None
YearOptions == {None} \cup (2000..CurrentYear)

\* lines 15-21: select_year, given the option the user picked
select_year(option) == IF option # None THEN option ELSE None

\* line 27: the options of the month box, in the order shown
MonthOptions ==
    <<"Select Month", "Jan", "Feb", "Mar", "Apr", "May", "Jun",
      "Jul", "Aug", "Sep", "Oct", "Nov", "Dec">>

\* lines 29-33: month_dict, as the set of its (key, value) items
month_dict ==
    {<<"Jan", 1>>, <<"Feb", 2>>, <<"Mar", 3>>, <<"Apr", 4>>,
     <<"May", 5>>, <<"Jun", 6>>, <<"Jul", 7>>, <<"Aug", 8>>,
     <<"Sep", 9>>, <<"Oct", 10>>, <<"Nov", 11>>, <<"Dec", 12>>}

\* mutant of select_month: months numbered from 0
select_month_ZeroBased(option) ==
    IF \E kv \in month_dict : kv[1] = option
    THEN (CHOOSE kv \in month_dict : kv[1] = option)[2] - 1
    ELSE None

\* lines 23-34: select_month, given the option the user picked:
\* month_dict.get(selected_month, None)
select_month(option) ==
    IF \E kv \in month_dict : kv[1] = option
    THEN (CHOOSE kv \in month_dict : kv[1] = option)[2]
    ELSE None

-----------------------------------------------------------------------------
(* Story *)

\* datetime(2000, month, 1): the constructor raises for a month that is
\* not an int in 1..12
DatetimeRaises(month) == month \notin 1..12

\* strftime('%B') of a date in the given month
MonthNames ==
    <<"January", "February", "March", "April", "May", "June", "July",
      "August", "September", "October", "November", "December">>

strftime_B(month) == MonthNames[month]

\* lines 55-62
StoryType(chart_type) ==
    CASE chart_type = "line" -> "Line Chart"
      [] chart_type = "scatter" -> "Scatter Plot"
      [] chart_type = "std_scatter" -> "Standard Deviation Scatter Plot"
      [] OTHER -> "Data Overview"

\* mutant of RowCount: the columns are counted (date, Alt_Mean, std CO2,
\* year) instead of the rows
RowCount_Columns(rows) == 4

\* line 51: len(df)
RowCount(rows) == Len(rows)

\* lines 49-78: generate_story.  The returned text is kept as the template
\* chosen and the values interpolated into it; `raised` is set when building
\* the text raises instead of returning.  The "full" template interpolates
\* gas_name once; its second sentence holds the characters {gas_name}.
generate_story(rows, gas, year, month, chart_type) ==
    LET total_rows == RowCount(rows)
        gas_name == Upper(gas)
        story_type == StoryType(chart_type)
    IN  IF Truthy(year) /\ Truthy(month)
        THEN IF DatetimeRaises(month)
             THEN [template |-> "month", raised |-> TRUE, month_arg |-> month]
             ELSE [template |-> "month", raised |-> FALSE,
                   story_type |-> story_type, gas_name |-> gas_name,
                   month_arg |-> month, month_name |-> strftime_B(month),
                   year |-> year, total_rows |-> total_rows]
        ELSE IF Truthy(year)
        THEN [template |-> "year", raised |-> FALSE,
              story_type |-> story_type, gas_name |-> gas_name,
              year |-> year, total_rows |-> total_rows]
        ELSE [template |-> "full", raised |-> FALSE,
              story_type |-> story_type, gas_name |-> gas_name,
              total_rows |-> total_rows]

-----------------------------------------------------------------------------
(* What Streamlit and Plotly are asked to show *)

st_title(text) == [kind |-> "title", body |-> text]
st_info(text) == [kind |-> "info", body |-> text]
st_error(text) == [kind |-> "error", body |-> text]
st_warning(text) == [kind |-> "warning", body |-> text]
st_write(story) == [kind |-> "write", body |-> story]
st_plotly_chart(fig) == [kind |-> "plotly_chart", fig |-> fig]

\* px.line / px.scatter: the figure is the table handed over, the two
\* columns plotted and the title (an f-string is the tuple of its parts)
px_line(rows, x, y, title) ==
    [fn |-> "line", frame |-> rows, x |-> x, y |-> y, title |-> title]
px_scatter(rows, x, y, title) ==
    [fn |-> "scatter", frame |-> rows, x |-> x, y |-> y, title |-> title]

-----------------------------------------------------------------------------
(* The three chart pipelines *)

\* what a pipeline displayed, and whether it ended by raising
Nothing == [shown |-> <<>>, raised |-> FALSE]
Warn(text) == [shown |-> <<st_warning(text)>>, raised |-> FALSE]

\* st.plotly_chart(fig) and then st.write(generate_story(...)): the chart is
\* on the page before the story text is built
Show(fig, story) ==
    IF story.raised
    THEN [shown |-> <<st_plotly_chart(fig)>>, raised |-> TRUE]
    ELSE [shown |-> <<st_plotly_chart(fig), st_write(story)>>,
          raised |-> FALSE]

\* mutant of draw_time_series: the year-and-month branch plots Alt_Mean like
\* the other two branches
draw_time_series_AltMean(rows0, gas, year, month) ==
    LET d == Clean(rows0)
        full ==
            Show(px_line(d, "date", "Alt_Mean", <<"Full Dataset: Alt_Mean Over Time">>),
                 generate_story(d, gas, None, None, "line"))
        byYear ==
            LET filtered_df == FilterYear(d, year)
            IN  IF ~IsEmpty(filtered_df)
                THEN Show(px_line(filtered_df, "date", "Alt_Mean",
                               <<"Alt_Mean Over Time in ", year>>),
                          generate_story(filtered_df, gas, year, None,
                                         "line"))
                ELSE Warn("No data available for the selected year.")
        byMonth ==
            LET filtered_df == FilterYearMonth(d, year, month)
            IN  IF ~IsEmpty(filtered_df)
                THEN Show(px_line(filtered_df, "date", "Alt_Mean",
                               <<"Standard Deviation of CO2 in ", month, " ", year>>),
                          generate_story(filtered_df, gas, year, month,
                                         "line"))
                ELSE Warn("No data available for the selected month and year.")
    IN  [df |-> Frame(d),
         res |-> IF year = None /\ month = None THEN full
                 ELSE IF year # None /\ month = None THEN byYear
                 ELSE IF year # None /\ month # None THEN byMonth
                 ELSE Nothing]

\* lines 80-115.  The table is the caller's object: `df` is what the caller
\* holds after the call.
draw_time_series(rows0, gas, year, month) ==
    LET d == Clean(rows0)
        full ==
            Show(px_line(d, "date", "Alt_Mean", <<"Full Dataset: Alt_Mean Over Time">>),
                 generate_story(d, gas, None, None, "line"))
        byYear ==
            LET filtered_df == FilterYear(d, year)
            IN  IF ~IsEmpty(filtered_df)
                THEN Show(px_line(filtered_df, "date", "Alt_Mean",
                               <<"Alt_Mean Over Time in ", year>>),
                          generate_story(filtered_df, gas, year, None,
                                         "line"))
                ELSE Warn("No data available for the selected year.")
        byMonth ==
            LET filtered_df == FilterYearMonth(d, year, month)
            IN  IF ~IsEmpty(filtered_df)
                THEN Show(px_line(filtered_df, "date", "std CO2",
                               <<"Standard Deviation of CO2 in ", month, " ", year>>),
                          generate_story(filtered_df, gas, year, month,
                                         "line"))
                ELSE Warn("No data available for the selected month and year.")
    IN  [df |-> Frame(d),
         res |-> IF year = None /\ month = None THEN full
                 ELSE IF year # None /\ month = None THEN byYear
                 ELSE IF year # None /\ month # None THEN byMonth
                 ELSE Nothing]

\* lines 117-152
draw_scatter_plot(rows0, gas, year, month) ==
    LET d == Clean(rows0)
        full ==
            Show(px_scatter(d, "date", "Alt_Mean", <<"Full Dataset: Alt_Mean Over Time">>),
                 generate_story(d, gas, None, None, "scatter"))
        byYear ==
            LET filtered_df == FilterYear(d, year)
            IN  IF ~IsEmpty(filtered_df)
                THEN Show(px_scatter(filtered_df, "date", "Alt_Mean",
                               <<"Alt_Mean Over Time in ", year>>),
                          generate_story(filtered_df, gas, year, None,
                                         "scatter"))
                ELSE Warn("No data available for the selected year.")
        byMonth ==
            LET filtered_df == FilterYearMonth(d, year, month)
            IN  IF ~IsEmpty(filtered_df)
                THEN Show(px_scatter(filtered_df, "date", "Alt_Mean",
                               <<"Alt_Mean Over Time in ", month, " ", year>>),
                          generate_story(filtered_df, gas, year, month,
                                         "scatter"))
                ELSE Warn("No data available for the selected month and year.")
    IN  [df |-> Frame(d),
         res |-> IF year = None /\ month = None THEN full
                 ELSE IF year # None /\ month = None THEN byYear
                 ELSE IF year # None /\ month # None THEN byMonth
                 ELSE Nothing]

\* lines 154-189
draw_std_co2_scatter_plot(rows0, gas, year, month) ==
    LET d == Clean(rows0)
        full ==
            Show(px_scatter(d, "date", "std CO2", <<"Full Dataset: std CO2 Over Time">>),
                 generate_story(d, gas, None, None, "std_scatter"))
        byYear ==
            LET filtered_df == FilterYear(d, year)
            IN  IF ~IsEmpty(filtered_df)
                THEN Show(px_scatter(filtered_df, "date", "std CO2",
                               <<"std CO2 Over Time in ", year>>),
                          generate_story(filtered_df, gas, year, None,
                                         "std_scatter"))
                ELSE Warn("No data available for the selected year.")
        byMonth ==
            LET filtered_df == FilterYearMonth(d, year, month)
            IN  IF ~IsEmpty(filtered_df)
                THEN Show(px_scatter(filtered_df, "date", "std CO2",
                               <<"std CO2 Over Time in ", month, " ", year>>),
                          generate_story(filtered_df, gas, year, month,
                                         "std_scatter"))
                ELSE Warn("No data available for the selected month and year.")
    IN  [df |-> Frame(d),
         res |-> IF year = None /\ month = None THEN full
                 ELSE IF year # None /\ month = None THEN byYear
                 ELSE IF year # None /\ month # None THEN byMonth
                 ELSE Nothing]

-----------------------------------------------------------------------------
(* Data access *)

\* line 38: f"data/{selected_gas}.csv"
FilePath(gas) == <<"data/", gas, ".csv">>

\* read_data.data_reader: the table stored under the path;
\* FileNotFoundError when there is none
data_reader(fs, file_path) ==
    IF file_path \in DOMAIN fs
    THEN [found |-> TRUE, rows |-> fs[file_path]]
    ELSE [found |-> FALSE, rows |-> <<>>]

\* line 40
IsPlaceholderGas(gas) == gas = "select gas"

\* mutant of get_data_source: the missing file is not reported
get_data_source_Silent(fs, gas) ==
    LET file_path == FilePath(gas)
    IN  IF IsPlaceholderGas(gas)
        THEN [df |-> NoFrame, shown |-> <<>>, reads |-> 0]
        ELSE LET r == data_reader(fs, file_path)
             IN  IF r.found
                 THEN [df |-> Frame(r.rows), shown |-> <<>>, reads |-> 1]
                 ELSE [df |-> NoFrame,
                       shown |-> <<>>,
                       reads |-> 1]

\* lines 36-47: get_data_source: the table or None, what it displayed and
\* how often it called data_reader
get_data_source(fs, gas) ==
    LET file_path == FilePath(gas)
    IN  IF IsPlaceholderGas(gas)
        THEN [df |-> NoFrame, shown |-> <<>>, reads |-> 0]
        ELSE LET r == data_reader(fs, file_path)
             IN  IF r.found
                 THEN [df |-> Frame(r.rows), shown |-> <<>>, reads |-> 1]
                 ELSE [df |-> NoFrame,
                       shown |-> <<st_error(<<"No file found for ", gas>>)>>,
                       reads |-> 1]

-----------------------------------------------------------------------------
(* Inputs: the files on disk *)

\* the date cells a file may hold: two days written year-month-day (one a
\* 29 February of a leap year), a 29 February that does not exist, a day
\* written with slashes and a time of day, a day before 1677, a text that
\* is no date, and an empty cell
RawDateCells ==
    { Str(<<"2", "0", "0", "0", "-", "0", "1", "-", "1", "5">>),
      Str(<<"2", "0", "0", "0", "-", "0", "2", "-", "2", "9">>),
      Str(<<"2", "0", "0", "1", "-", "0", "2", "-", "2", "9">>),
      Str(<<"2", "0", "0", "1", "/", "0", "1", "/", "1", "5", " ",
            "1", "0", ":", "3", "0", ":", "0", "0">>),
      Str(<<"1", "5", "0", "0", "-", "0", "1", "-", "0", "1">>),
      Str(<<"a", "b", "c">>),
      NaN }

\* date cells written in other layouts: a month name that is also a full
\* name, an abbreviated one with a one-digit day, a day that can only be
\* read day first, and one that can be read either way
LayoutCells ==
    { Str(<<"M", "a", "y", " ", "1", "5", " ", "2", "0", "0", "0">>),
      Str(<<"J", "a", "n", " ", "5", " ", "2", "0", "0", "0">>),
      Str(<<"1", "5", "/", "1", "/", "2", "0", "0", "0">>),
      Str(<<"1", "/", "5", "/", "2", "0", "0", "0">>) }

\* the character of a digit, and a number written with two and four digits
DigitChar(n) == CHOOSE c \in Digits : DigitVal(c) = n

TwoDigits(n) == <<DigitChar(n \div 10), DigitChar(n % 10)>>

FourDigits(n) == TwoDigits(n \div 100) \o TwoDigits(n % 100)

\* a day written year-month-day
IsoText(y, m, d) ==
    FourDigits(y) \o <<"-">> \o TwoDigits(m) \o <<"-">> \o TwoDigits(d)

\* a file with one row for the 15th of every month of 2000
CalendarFile == [i \in 1..12 |-> Row(i - 1, Str(IsoText(2000, i, 15)))]

\* the tables: those of at most MaxRows rows over RawDateCells, those of two
\* rows over LayoutCells, and the calendar file; rows are indexed 0, 1, ...
\* as read_csv does
Tables ==
    UNION { { [i \in 1..n |-> Row(i - 1, c[i])] : c \in [1..n -> RawDateCells] }
            : n \in 0..MaxRows }
    \cup { <<Row(0, c), Row(1, d)>> : c \in LayoutCells, d \in LayoutCells }
    \cup { CalendarFile }

\* a file that no gas option names unless the placeholder is taken for one
PlaceholderFile == <<Row(0, Str(<<"2", "0", "0", "0", "-", "0", "1", "-", "1", "5">>))>>

\* the disks: data/co2.csv absent or holding any of the tables, and one disk
\* that also holds a file under the placeholder's name
FileSystems ==
    { [p \in D |-> t] : D \in SUBSET {FilePath("co2")}, t \in Tables }
    \cup { [p \in {FilePath("co2"), FilePath("select gas")} |-> PlaceholderFile] }

-----------------------------------------------------------------------------
(* One run of main(), lines 191-208 *)

RunLocalsInit ==
    /\ pc = "title"
    /\ selected_gas = ""
    /\ selected_year = None
    /\ selected_month = None
    /\ month_choice = "Select Month"
    /\ df = NoFrame
    /\ loaded = <<>>
    /\ reads = 0
    /\ calls = <<>>
    /\ out = <<>>

Init ==
    /\ files \in FileSystems
    /\ pandas \in PandasVersions
    /\ RunLocalsInit

\* line 193
Title ==
    /\ pc = "title"
    /\ out' = Append(out, st_title("Atmospheric Gases Concentration Dashboard"))
    /\ pc' = "select_gas"
    /\ UNCHANGED <<files, pandas, selected_gas, selected_year, selected_month,
                   month_choice, df, loaded, reads, calls>>

\* line 195
SelectGas ==
    /\ pc = "select_gas"
    /\ \E option \in GasOptions : selected_gas' = select_gas(option)
    /\ pc' = "select_year"
    /\ UNCHANGED <<files, pandas, selected_year, selected_month, month_choice, df,
                   loaded, reads, calls, out>>

\* line 196
SelectYear ==
    /\ pc = "select_year"
    /\ \E option \in YearOptions : selected_year' = select_year(option)
    /\ pc' = "select_month"
    /\ UNCHANGED <<files, pandas, selected_gas, selected_month, month_choice, df,
                   loaded, reads, calls, out>>

\* line 197
SelectMonth ==
    /\ pc = "select_month"
    /\ \E k \in 1..Len(MonthOptions) :
          /\ month_choice' = MonthOptions[k]
          /\ selected_month' = select_month(MonthOptions[k])
    /\ pc' = "check_gas"
    /\ UNCHANGED <<files, pandas, selected_gas, selected_year, df, loaded, reads,
                   calls, out>>

\* mutant of MainPlaceholderTest: compared with the option as displayed
MainPlaceholderTest_Displayed(gas) == gas = "Select Gas"

\* line 199
MainPlaceholderTest(gas) == gas = "select gas"

\* lines 199-201
InfoReturn ==
    /\ pc = "check_gas"
    /\ MainPlaceholderTest(selected_gas)
    /\ out' = Append(out, st_info("Please select a gas to start."))
    /\ pc' = "done"
    /\ UNCHANGED <<files, pandas, selected_gas, selected_year, selected_month,
                   month_choice, df, loaded, reads, calls>>

\* line 203
GetDataSource ==
    /\ pc = "check_gas"
    /\ ~MainPlaceholderTest(selected_gas)
    /\ LET r == get_data_source(files, selected_gas)
       IN  /\ df' = r.df
           /\ loaded' = r.df.rows
           /\ reads' = reads + r.reads
           /\ out' = out \o r.shown
    /\ pc' = "check_df"
    /\ UNCHANGED <<files, pandas, selected_gas, selected_year, selected_month,
                   month_choice, calls>>

\* line 205, df is None: main returns
NoDataset ==
    /\ pc = "check_df"
    /\ df.isNone
    /\ pc' = "done"
    /\ UNCHANGED <<files, pandas, selected_gas, selected_year, selected_month,
                   month_choice, df, loaded, reads, calls, out>>

\* a pipeline call of main: the shared table is cleaned in place, the
\* pipeline's elements are shown, and an exception ends the run
CallPipeline(name, r, next) ==
    /\ df' = r.df
    /\ out' = out \o r.res.shown
    /\ calls' = Append(calls, [name |-> name,
                                first |-> Len(out) + 1,
                                last |-> Len(out) + Len(r.res.shown),
                                table |-> r.df.rows])
    /\ pc' = IF r.res.raised THEN "crashed" ELSE next
    /\ UNCHANGED <<files, pandas, selected_gas, selected_year, selected_month,
                   month_choice, loaded, reads>>

\* lines 205-206
DrawTimeSeries ==
    /\ pc = "check_df"
    /\ ~df.isNone
    /\ CallPipeline("draw_time_series",
                    draw_time_series(df.rows, selected_gas, selected_year,
                                     selected_month),
                    "scatter")

\* line 207
DrawScatterPlot ==
    /\ pc = "scatter"
    /\ CallPipeline("draw_scatter_plot",
                    draw_scatter_plot(df.rows, selected_gas, selected_year,
                                      selected_month),
                    "std_scatter")

\* line 208
DrawStdCo2ScatterPlot ==
    /\ pc = "std_scatter"
    /\ CallPipeline("draw_std_co2_scatter_plot",
                    draw_std_co2_scatter_plot(df.rows, selected_gas,
                                              selected_year, selected_month),
                    "done")

\* the script runs again from the top on the next interaction; nothing of
\* the finished run is kept
Rerun ==
    /\ pc \in {"done", "crashed"}
    /\ pc' = "title"
    /\ selected_gas' = ""
    /\ selected_year' = None
    /\ selected_month' = None
    /\ month_choice' = "Select Month"
    /\ df' = NoFrame
    /\ loaded' = <<>>
    /\ reads' = 0
    /\ calls' = <<>>
    /\ out' = <<>>
    /\ UNCHANGED <<files, pandas>>

Next ==
    \/ Title
    \/ SelectGas
    \/ SelectYear
    \/ SelectMonth
    \/ InfoReturn
    \/ GetDataSource
    \/ NoDataset
    \/ DrawTimeSeries
    \/ DrawScatterPlot
    \/ DrawStdCo2ScatterPlot
    \/ Rerun

Spec == Init /\ [][Next]_vars

-----------------------------------------------------------------------------
(* Reading a run's output *)

\* the elements a pipeline call displayed
Segment(c) == SubSeq(out, c.first, c.last)

IsChartStory(seg) ==
    Len(seg) = 2 /\ seg[1].kind = "plotly_chart" /\ seg[2].kind = "write"

IsWarning(seg) == Len(seg) = 1 /\ seg[1].kind = "warning"

\* the loaded file with its date column parsed, no row dropped
ParsedLoaded == ParseDates(loaded)

\* a row of the loaded file matches the selection: its date parsed, and its
\* year and month are the selected ones where one is selected
Matches(r) ==
    /\ r.date.kind = "ts"
    /\ selected_year # None => r.date.year = selected_year
    /\ selected_month # None => r.date.month = selected_month

MatchingLabels ==
    {ParsedLoaded[i].idx :
        i \in {j \in 1..Len(loaded) : Matches(ParsedLoaded[j])}}

\* the table shows exactly the matching rows of the loaded file, each once,
\* with the measurements the file holds and the date parsed
IsMatchingSubset(frame) ==
    /\ {frame[j].idx : j \in 1..Len(frame)} = MatchingLabels
    /\ Len(frame) = Cardinality(MatchingLabels)
    /\ \A j \in 1..Len(frame) :
          \E i \in 1..Len(loaded) :
             /\ loaded[i].idx = frame[j].idx
             /\ loaded[i].Alt_Mean = frame[j].Alt_Mean
             /\ loaded[i].std_CO2 = frame[j].std_CO2
             /\ ParsedLoaded[i].date = frame[j].date

-----------------------------------------------------------------------------
(* Files whose reading is stated outright *)

\* Date columns with the dates pandas reads from them, written down from
\* pandas' documented behaviour and not computed by the definitions above:
\* `texts` is the column as the file writes it, `on` the pandas releases
\* the reading holds for, `dates` the column pd.to_datetime returns.
Known(texts, on, dates) == [texts |-> texts, on |-> on, dates |-> dates]

Midnight == <<0, 0, 0>>

KnownColumns ==
    { \* one row for every month of 2000
      Known([i \in 1..12 |-> IsoText(2000, i, 15)], PandasVersions,
            [i \in 1..12 |-> Timestamp(2000, i, 15, Midnight)]),
      \* a single day
      Known(<<IsoText(2000, 1, 15)>>, PandasVersions,
            <<Timestamp(2000, 1, 15, Midnight)>>),
      \* a day and a text that is no date
      Known(<<IsoText(2000, 1, 15), <<"a", "b", "c">>>>, PandasVersions,
            <<Timestamp(2000, 1, 15, Midnight), NaT>>),
      \* a day that does not exist
      Known(<<IsoText(2001, 2, 29), IsoText(2000, 2, 29)>>, PandasVersions,
            <<NaT, Timestamp(2000, 2, 29, Midnight)>>),
      \* a day before 1677 first: out of range with nanoseconds, where no
      \* format is guessed from it; in range without, where its format
      \* rules out the second text
      Known(<<IsoText(1500, 1, 1),
              <<"2", "0", "0", "1", "/", "0", "1", "/", "1", "5", " ",
                "1", "0", ":", "3", "0", ":", "0", "0">>>>,
            {"1.x", "2.x"},
            <<NaT, Timestamp(2001, 1, 15, <<10, 30, 0>>)>>),
      Known(<<IsoText(1500, 1, 1),
              <<"2", "0", "0", "1", "/", "0", "1", "/", "1", "5", " ",
                "1", "0", ":", "3", "0", ":", "0", "0">>>>,
            {"3.x"},
            <<Timestamp(1500, 1, 1, Midnight), NaT>>),
      \* 'May' first makes the column's format one of full month names
      Known(<<<<"M", "a", "y", " ", "1", "5", " ", "2", "0", "0", "0">>,
              <<"J", "a", "n", " ", "5", " ", "2", "0", "0", "0">>>>,
            {"1.x"},
            <<Timestamp(2000, 5, 15, Midnight),
              Timestamp(2000, 1, 5, Midnight)>>),
      Known(<<<<"M", "a", "y", " ", "1", "5", " ", "2", "0", "0", "0">>,
              <<"J", "a", "n", " ", "5", " ", "2", "0", "0", "0">>>>,
            {"2.x", "3.x"},
            <<Timestamp(2000, 5, 15, Midnight), NaT>>),
      Known(<<<<"J", "a", "n", " ", "5", " ", "2", "0", "0", "0">>,
              <<"M", "a", "y", " ", "1", "5", " ", "2", "0", "0", "0">>>>,
            PandasVersions,
            <<Timestamp(2000, 1, 5, Midnight),
              Timestamp(2000, 5, 15, Midnight)>>),
      \* a day-first text first makes the column day first
      Known(<<<<"1", "5", "/", "1", "/", "2", "0", "0", "0">>,
              <<"1", "/", "5", "/", "2", "0", "0", "0">>>>,
            {"1.x"},
            <<Timestamp(2000, 1, 15, Midnight),
              Timestamp(2000, 1, 5, Midnight)>>),
      Known(<<<<"1", "5", "/", "1", "/", "2", "0", "0", "0">>,
              <<"1", "/", "5", "/", "2", "0", "0", "0">>>>,
            {"2.x", "3.x"},
            <<Timestamp(2000, 1, 15, Midnight),
              Timestamp(2000, 5, 1, Midnight)>>),
      \* a month name first rules out a day written with slashes
      Known(<<<<"J", "a", "n", " ", "5", " ", "2", "0", "0", "0">>,
              <<"1", "/", "5", "/", "2", "0", "0", "0">>>>,
            {"2.x", "3.x"},
            <<Timestamp(2000, 1, 5, Midnight), NaT>>) }

\* the loaded file is the known column kc, read by a release it is known on
IsLoaded(kc) ==
    /\ pandas \in kc.on
    /\ Len(loaded) = Len(kc.texts)
    /\ \A i \in 1..Len(loaded) : loaded[i].date = Str(kc.texts[i])

\* the rows of the known column kc that the selection keeps, as a pipeline
\* has them after cleaning
KnownRows(kc) ==
    SelectSeq([i \in 1..Len(kc.dates) |->
                  [idx |-> i - 1, date |-> kc.dates[i],
                   Alt_Mean |-> loaded[i].Alt_Mean,
                   std_CO2 |-> loaded[i].std_CO2,
                   year |-> IF kc.dates[i] = NaT THEN None
                            ELSE kc.dates[i].year]],
              LAMBDA r :
                  /\ r.date # NaT
                  /\ selected_year # None => r.date.year = selected_year
                  /\ selected_month # None => r.date.month = selected_month)

-----------------------------------------------------------------------------
(* Claims *)

\* C1: every chart shown by a pipeline is drawn from exactly the rows of the
\* loaded dataset whose date parses and whose year and month equal the
\* selected year and month (each when selected): no matching row is left
\* out and no other row is included.  On the files whose reading is stated
\* outright the chart holds exactly the rows that reading keeps.
C1_ChartedRowsAreTheMatchingRows ==
    \A k \in 1..Len(out) :
        out[k].kind = "plotly_chart" =>
            /\ IsMatchingSubset(out[k].fig.frame)
            /\ \A j \in 1..Len(out[k].fig.frame) :
                  LET r == out[k].fig.frame[j]
                  IN  /\ r.date.kind = "ts"
                      /\ selected_year # None => r.date.year = selected_year
                      /\ selected_month # None => r.date.month = selected_month
                      /\ loaded[r.idx + 1].date \notin {NaN, Str(<<"a", "b", "c">>)}
            /\ \A kc \in KnownColumns :
                  IsLoaded(kc) => out[k].fig.frame = KnownRows(kc)

\* a finished run on pandas 2.x over the file whose first date is before
\* 1677 and whose second is 2001/01/15 10:30:00, with 2001 and January
\* selected: the chart holds the second row alone, read to the minute
C1_Witness ==
    /\ pc = "done"
    /\ pandas = "2.x"
    /\ selected_year = 2001 /\ selected_month = 1
    /\ Len(loaded) = 2
    /\ loaded[1].date = Str(IsoText(1500, 1, 1))
    /\ \E k \in 1..Len(out) :
          /\ out[k].kind = "plotly_chart"
          /\ Len(out[k].fig.frame) = 1
          /\ out[k].fig.frame[1].idx = 1
          /\ out[k].fig.frame[1].date = Timestamp(2001, 1, 15, <<10, 30, 0>>)

\* C3: the row count a story states is the number of rows of the table
\* handed to the renderer for the chart the story stands beneath.
C3_StoryCountsTheChartedRows ==
    \A k \in 1..Len(out) :
        out[k].kind = "write" =>
            /\ k > 1
            /\ out[k - 1].kind = "plotly_chart"
            /\ out[k].body.total_rows = Len(out[k - 1].fig.frame)

\* a run with a year selected whose stories count fewer rows than the
\* cleaned table holds
C3_Witness ==
    /\ pc = "done"
    /\ selected_year # None
    /\ Len(df.rows) = 2
    /\ \E k \in 1..Len(out) :
          out[k].kind = "write" /\ out[k].body.total_rows = 1

\* C4: with the gas box left at its placeholder, whatever year and month are
\* selected, the run shows the informational prompt and nothing else: the
\* loader is never called, no pipeline is invoked, and no chart, story,
\* warning or error appears.
C4_PlaceholderShowsInfoOnly ==
    (pc \notin {"title", "select_gas"} /\ selected_gas = "select gas") =>
        /\ reads = 0
        /\ calls = <<>>
        /\ df.isNone
        /\ \A k \in 1..Len(out) : out[k].kind \in {"title", "info"}
        /\ pc \in {"select_year", "select_month", "check_gas", "done"}
        /\ pc = "done" =>
              /\ Len(out) = 2
              /\ out[2] = st_info("Please select a gas to start.")

\* a finished placeholder run with a year and a month selected, on a disk
\* that holds a file under the placeholder's name
C4_Witness ==
    /\ pc = "done"
    /\ selected_gas = "select gas"
    /\ selected_year # None /\ selected_month # None
    /\ FilePath("select gas") \in DOMAIN files
    /\ FilePath("co2") \in DOMAIN files

\* C5: with a real gas selected whose file does not exist, get_data_source
\* shows an error naming the gas and returns no dataset; main invokes no
\* pipeline, shows no chart, story or warning, and the run completes.
C5_MissingFileShowsErrorOnly ==
    (/\ pc \in {"check_df", "scatter", "std_scatter", "done", "crashed"}
     /\ selected_gas # "select gas"
     /\ FilePath(selected_gas) \notin DOMAIN files) =>
        /\ df.isNone
        /\ reads = 1
        /\ calls = <<>>
        /\ Len(out) = 2
        /\ out[2] = st_error(<<"No file found for ", selected_gas>>)
        /\ pc \in {"check_df", "done"}

\* a finished run for CO2 with no data/co2.csv on disk
C5_Witness ==
    /\ pc = "done"
    /\ selected_gas = "co2"
    /\ FilePath("co2") \notin DOMAIN files
    /\ Len(out) = 2 /\ out[2].kind = "error"

\* the rows of the loaded file that match the selection
MatchingRows == SelectSeq(ParsedLoaded, Matches)

\* C6: in each pipeline, with a year (or a year and a month) selected, an
\* empty filtered subset gives one warning and neither chart nor story, and a
\* non-empty one gives a chart and its story; a warning appears only when a
\* year is selected and the filtered subset is empty.  On the files whose
\* reading is stated outright the subset is the one that reading keeps.
C6_WarningIffFilteredSubsetEmpty ==
    \A i \in 1..Len(calls) :
        LET seg == Segment(calls[i])
        IN  /\ selected_year # None =>
                 /\ MatchingRows = <<>> => IsWarning(seg)
                 /\ MatchingRows # <<>> => IsChartStory(seg)
            /\ (\E k \in 1..Len(seg) : seg[k].kind = "warning") =>
                 selected_year # None /\ MatchingRows = <<>>
            /\ \A kc \in KnownColumns :
                 (IsLoaded(kc) /\ selected_year # None) =>
                     IF KnownRows(kc) = <<>> THEN IsWarning(seg)
                     ELSE IsChartStory(seg)

\* a finished run over the file of the one day 2000-01-15 with 2000 and
\* February selected: the year has a row, the month has none, and all three
\* pipelines warned
C6_Witness ==
    /\ pc = "done"
    /\ selected_year = 2000 /\ selected_month = 2
    /\ Len(loaded) = 1
    /\ loaded[1].date = Str(IsoText(2000, 1, 15))
    /\ Len(calls) = 3
    /\ \A i \in 1..3 : IsWarning(Segment(calls[i]))

\* the full month name each option of the month box abbreviates
FullNameOf ==
    {<<"Jan", "January">>, <<"Feb", "February">>, <<"Mar", "March">>,
     <<"Apr", "April">>, <<"May", "May">>, <<"Jun", "June">>,
     <<"Jul", "July">>, <<"Aug", "August">>, <<"Sep", "September">>,
     <<"Oct", "October">>, <<"Nov", "November">>, <<"Dec", "December">>}

\* C7: select_month returns None or an integer in 1..12, and in a run of main
\* generate_story derives a month name only from a value in 1..12, never from
\* an absent month, and the name it derives is the full name of the month
\* the user picked; the derivation never raises.
C7_MonthNameOnlyFromOneToTwelve ==
    /\ pc # "crashed"
    /\ selected_month = None \/ selected_month \in 1..12
    /\ (month_choice = "Select Month") <=> (selected_month = None)
    /\ \A k \in 1..Len(out) :
          (out[k].kind = "write" /\ out[k].body.template = "month") =>
              /\ selected_month # None
              /\ out[k].body.month_arg = selected_month
              /\ out[k].body.month_arg \in 1..12
              /\ <<month_choice, out[k].body.month_name>> \in FullNameOf
    /\ \A k \in 1..Len(out) :
          (out[k].kind = "write" /\ selected_year # None
           /\ selected_month # None) => out[k].body.template = "month"

\* a finished run over the calendar file with 2000 and 'Dec' picked, whose
\* three stories name December
C7_Witness ==
    /\ pc = "done"
    /\ loaded = CalendarFile
    /\ selected_year = 2000
    /\ month_choice = "Dec"
    /\ Len(calls) = 3
    /\ \A i \in 1..3 :
          /\ IsChartStory(Segment(calls[i]))
          /\ Segment(calls[i])[2].body.template = "month"
          /\ Segment(calls[i])[2].body.month_arg = 12
          /\ Segment(calls[i])[2].body.month_name = "December"

\* the y column each pipeline plots under the selection made
ExpectedY(name) ==
    CASE name = "draw_time_series" ->
             IF selected_year # None /\ selected_month # None
             THEN "std CO2" ELSE "Alt_Mean"
      [] name = "draw_scatter_plot" -> "Alt_Mean"
      [] name = "draw_std_co2_scatter_plot" -> "std CO2"

\* C8: with no filter and with a year only, the line and scatter pipelines
\* plot Alt_Mean and the std-scatter pipeline plots std CO2; with year and
\* month selected the line pipeline plots std CO2, the scatter pipeline
\* Alt_Mean and the std-scatter pipeline std CO2.  Every chart plots it
\* against date.
C8_YColumnByPipelineAndBranch ==
    \A i \in 1..Len(calls) :
        \A k \in calls[i].first..calls[i].last :
            out[k].kind = "plotly_chart" =>
                /\ out[k].fig.x = "date"
                /\ out[k].fig.y = ExpectedY(calls[i].name)

\* a finished run with year and month selected that drew all three charts
C8_Witness ==
    /\ pc = "done"
    /\ selected_year # None /\ selected_month # None
    /\ Len(calls) = 3
    /\ \A i \in 1..3 : IsChartStory(Segment(calls[i]))
    /\ out[calls[1].first].fig.y = "std CO2"
    /\ out[calls[2].first].fig.y = "Alt_Mean"
    /\ out[calls[3].first].fig.y = "std CO2"

\* the chart function and the story label of each pipeline
ChartFnOf(name) ==
    IF name = "draw_time_series" THEN "line" ELSE "scatter"

StoryTypeOf(name) ==
    CASE name = "draw_time_series" -> "Line Chart"
      [] name = "draw_scatter_plot" -> "Scatter Plot"
      [] name = "draw_std_co2_scatter_plot" -> "Standard Deviation Scatter Plot"

\* C2: for every gas, year and month selection, a month selected with the
\* year left at its placeholder included, the run completes and shows
\* something beyond the title: with a dataset loaded each of the three
\* pipelines shows a chart and its story or a warning, otherwise an
\* informational or error message is shown.
C2_EveryRunShowsOutput ==
    /\ pc # "crashed"
    /\ pc = "done" =>
          /\ Len(out) > 1
          /\ df.isNone => Len(out) = 2 /\ out[2].kind \in {"info", "error"}
          /\ ~df.isNone =>
                /\ Len(calls) = 3
                /\ \A i \in 1..3 :
                      \/ IsChartStory(Segment(calls[i]))
                      \/ IsWarning(Segment(calls[i]))

\* C9: with a dataset loaded, main invokes time-series, scatter and
\* std-scatter once each in that order, and the output after the title is
\* the line chart and its story, the scatter chart and its story, the
\* std-scatter chart and its story, each pair possibly replaced by one
\* warning.
C9_PipelinesInOrderChartThenStory ==
    (pc = "done" /\ ~df.isNone) =>
        /\ Len(calls) = 3
        /\ calls[1].name = "draw_time_series"
        /\ calls[2].name = "draw_scatter_plot"
        /\ calls[3].name = "draw_std_co2_scatter_plot"
        /\ calls[1].first = 2
        /\ calls[2].first = calls[1].last + 1
        /\ calls[3].first = calls[2].last + 1
        /\ calls[3].last = Len(out)
        /\ \A i \in 1..3 :
              LET seg == Segment(calls[i])
              IN  \/ IsWarning(seg)
                  \/ /\ IsChartStory(seg)
                     /\ seg[1].fig.fn = ChartFnOf(calls[i].name)
                     /\ seg[2].body.story_type = StoryTypeOf(calls[i].name)

\* C10: the second and third pipelines' cleaning removes no row and changes
\* no date or year left by the first, so all three pipelines filter the
\* same cleaned rows and, for any selection, either all three show a chart
\* (their stories stating the same row count) or all three warn.
C10_CleaningIdempotentAllRenderOrAllWarn ==
    (pc = "done" /\ ~df.isNone) =>
        /\ Len(calls) = 3
        /\ calls[2].table = calls[1].table
        /\ calls[3].table = calls[1].table
        /\ \/ \A i \in 1..3 : IsWarning(Segment(calls[i]))
           \/ \A i \in 1..3 :
                 /\ IsChartStory(Segment(calls[i]))
                 /\ Segment(calls[i])[1].fig.frame = Segment(calls[1])[1].fig.frame
                 /\ Segment(calls[i])[2].body.total_rows
                       = Segment(calls[1])[2].body.total_rows

====
